---- MODULE Spec2Model ----
EXTENDS Integers, Sequences, FiniteSets, TLC

(***************************************************************************)
(* Strings are sequences of tokens.  " " is any whitespace character,      *)
(* "B" a backtick, "<" a less-than sign, "a" any other character and "S"   *)
(* the separator line "---README.md---".  Multi-character literals of the  *)
(* source that contain no whitespace at their edges, no backtick and no    *)
(* separator are single tokens (e.g. "FBHEAD", "TAIL"); a whitespace      *)
(* character at the edge of a literal is a separate " " token.             *)
(***************************************************************************)

VARIABLES mode, fencePc, seg, segOut, genPc, inp, text, codePart, files, genRaised,
          decPc, atts, saved, decFails, written,
          repoPc, repos, calls, rName, lastGet, lastPost, posts, handle, repoRaised, desc, sentDesc,
          filePc, fileFn, remote, fCalls, fGet, fBody, fPuts, fResult,
          pollPc, pollFn, now, pollTimeout, attempts, only404, lastResp, pollResult

genVars == <<genPc, inp, text, codePart, files, genRaised>>
decVars == <<decPc, atts, saved, decFails, written>>
repoVars == <<repoPc, repos, calls, rName, lastGet, lastPost, posts, handle, repoRaised, desc, sentDesc>>
fenceVars == <<fencePc, seg, segOut>>
fileVars == <<filePc, fileFn, remote, fCalls, fGet, fBody, fPuts, fResult>>
pollVars == <<pollPc, pollFn, now, pollTimeout, attempts, only404, lastResp, pollResult>>
pubVars == <<fileVars, pollVars>>
vars == <<mode, fenceVars, genVars, decVars, repoVars, pubVars>>

MaxTextLen == 4
MaxBriefLen == 2
\* segments passed to _strip_code_block on their own: room for two
\* delimiters around a character
MaxSegLen == 7

TextAlphabet == {" ", "<", "a", "B", "S"}

Strings(n) == UNION {[1..k -> TextAlphabet] : k \in 0..n}

IsWs(c) == c = " "

\* Python str.strip()
strip(s) ==
  IF \A i \in 1..Len(s) : IsWs(s[i]) THEN <<>>
  ELSE LET f == CHOOSE i \in 1..Len(s) : ~IsWs(s[i]) /\ \A j \in 1..(i-1) : IsWs(s[j])
           l == CHOOSE i \in 1..Len(s) : ~IsWs(s[i]) /\ \A j \in (i+1)..Len(s) : IsWs(s[j])
       IN SubSeq(s, f, l)

FenceAt(s, i) == i + 2 <= Len(s) /\ s[i] = "B" /\ s[i+1] = "B" /\ s[i+2] = "B"

HasFence(s) == \E i \in 1..Len(s) : FenceAt(s, i)

FirstFence(s) == CHOOSE i \in 1..Len(s) : FenceAt(s, i) /\ \A j \in 1..(i-1) : ~FenceAt(s, j)

\* Python text.split("```")
RECURSIVE SplitFence(_)
SplitFence(s) ==
  IF ~HasFence(s) THEN <<s>>
  ELSE LET i == FirstFence(s)
       IN <<SubSeq(s, 1, i - 1)>> \o SplitFence(SubSeq(s, i + 3, Len(s)))

strip_code_block_NoTrim(t) ==
  IF HasFence(t)
  THEN LET parts == SplitFence(t)
       IN IF Len(parts) >= 2 THEN parts[2] ELSE strip(t)
  ELSE strip(t)

\* _strip_code_block
strip_code_block(t) ==
  IF HasFence(t)
  THEN LET parts == SplitFence(t)
       IN IF Len(parts) >= 2 THEN strip(parts[2]) ELSE strip(t)
  ELSE strip(t)

HasSep(s) == \E i \in 1..Len(s) : s[i] = "S"

FirstSep(s) == CHOOSE i \in 1..Len(s) : s[i] = "S" /\ \A j \in 1..(i-1) : s[j] # "S"

\* text.split("---README.md---", 1)
SplitSep(s) == <<SubSeq(s, 1, FirstSep(s) - 1), SubSeq(s, FirstSep(s) + 1, Len(s))>>

\* "\\n".join(checks or [])  (a literal backslash-n, token "BSN")
RECURSIVE JoinChecks(_)
JoinChecks(cs) ==
  IF cs = <<>> THEN <<>>
  ELSE IF Len(cs) = 1 THEN cs[1]
  ELSE cs[1] \o <<"BSN">> \o JoinChecks(Tail(cs))

RoundToken(r) == IF r = 1 THEN "RH1" ELSE "RH2"

\* generate_readme_fallback: "# Auto-generated README (Round r)\n\n**Project brief:** {brief}
\* \n\n**Attachments:**\n{att}\n\n**Checks to meet:**\n{checks}\n\n## Setup ... README).\n"
generate_readme_fallback(brief, checks, meta, r) ==
  <<RoundToken(r), " ", " ", "PB", " ">> \o brief \o
  <<" ", " ", "AT", " ">> \o meta \o
  <<" ", " ", "CK", " ">> \o JoinChecks(checks) \o
  <<" ", " ", "TAIL", " ">>

\* fallback response text of the except branch:
\* "\n<html>...<h1>Hello (fallback)</h1>...Brief: {brief}</p>...</html>\n\n---README.md---\n{readme}\n"
FallbackText(i) ==
  <<" ", "<", "FBHEAD", " ">> \o i.brief \o <<"<", "FBTAIL", " ", " ", "S", " ">> \o
  generate_readme_fallback(i.brief, i.checks, i.meta, i.round) \o <<" ">>

\* the try/except around the chat-completion request
CompletionText(i) ==
  IF ~i.cred THEN FallbackText(i)       \* RuntimeError raised inside the try
  ELSE CASE i.kind = "ok"        -> i.content          \* choices[0].message.content
         [] i.kind = "null"      -> <<>>               \* content is None -> ""
         [] i.kind = "malformed" -> i.content          \* str(data)
         [] OTHER                -> FallbackText(i)    \* non-200 / transport exception

StartsDoc(s) == Len(s) > 0 /\ s[1] = "<"

WrapHtml_DropCode(c) == <<"<", "DOCHEAD", " ", " ", "<", "DOCTAIL">>

\* "<!DOCTYPE html>\n<html lang=\"en\">...<body>\n{code_part}\n</body>\n</html>"
WrapHtml(c) == <<"<", "DOCHEAD", " ">> \o c \o <<" ", "<", "DOCTAIL">>

SplitCode_NoFence(t) ==
  IF HasSep(t) THEN strip_code_block(strip(SplitSep(t)[1]))
  ELSE strip(t)

SplitCode(t) ==
  IF HasSep(t) THEN strip_code_block(strip(SplitSep(t)[1]))
  ELSE strip_code_block(t)

SplitReadme(t, i) ==
  IF HasSep(t) THEN strip_code_block(strip(SplitSep(t)[2]))
  ELSE generate_readme_fallback(i.brief, i.checks, i.meta, i.round)

RepairHtml(c) == IF ~StartsDoc(strip(c)) THEN WrapHtml(c) ELSE c

OkBriefs == {<<"a">>, <<"B", "B", "B">>}
ChecksSet == {<<>>, <<<<"a">>>>, <<<<"a">>, <<"B">>>>, <<<<"B", "B", "B">>>>}
\* the 3 bytes of the generated attachment, read back as text with
\* errors="ignore" (undecodable bytes dropped), "\n" replaced by a literal
\* backslash-n ("a")
MaxPreviewLen == 3

Previews == UNION {[1..k -> {" ", "<", "a", "B"}] : k \in 0..MaxPreviewLen}

\* summarize_attachment_meta: "" without attachments; for the saved text
\* attachment "- x (t): preview: " + preview, where "PV" is the literal
\* "- x (t): preview:" and the preview is whatever the file holds
SummaryOf(sv) ==
  IF sv = <<>> THEN {<<>>} ELSE {<<"PV", " ">> \o pv : pv \in Previews}

\* attachments passed to generate_app_code
GenAtts == {<<>>, <<[name |-> "x", url |-> <<"data:", "t", ";", ",", "Q">>]>>}
DataReprs == {<<"a">>, <<"a", "S", "a">>, <<"a", "B", "B", "B", "a">>}

GenInputs ==
  [kind : {"ok"}, content : Strings(MaxTextLen), brief : OkBriefs, checks : {<<>>},
   meta : {<<>>}, round : {1, 2}, cred : {TRUE}]
  \cup [kind : {"null"}, content : {<<>>}, brief : OkBriefs, checks : ChecksSet,
        meta : {<<>>}, round : {1, 2}, cred : {TRUE}]
  \cup [kind : {"malformed"}, content : DataReprs, brief : {<<"a">>}, checks : ChecksSet,
        meta : {<<>>}, round : {1, 2}, cred : {TRUE}]
  \cup [kind : {"non200", "exc"}, content : {<<>>}, brief : Strings(MaxBriefLen),
        checks : ChecksSet, meta : {<<>>}, round : {1, 2}, cred : {TRUE}]
  \cup [kind : {"ok"}, content : {<<>>}, brief : Strings(MaxBriefLen),
        checks : ChecksSet, meta : {<<>>}, round : {1, 2}, cred : {FALSE}]
  \cup [kind : {"nonstring"}, content : {<<>>}, brief : OkBriefs, checks : {<<>>},
        meta : {<<>>}, round : {1, 2}, cred : {TRUE}]

\* a 200 answer whose choices[0].message.content is a truthy non-string
\* (number, list, object): text is not a str, and the parse after the try
\* raises ("---README.md---" in text is a TypeError for a number,
\* text.strip() in _strip_code_block an AttributeError for a list or dict)
ParseRaises(i) == i.cred /\ i.kind = "nonstring"

NoFiles == [index |-> <<>>, readme |-> <<>>]

(***************************************************************************)
(* Attachments.  A url is a sequence of tokens: "data:" the scheme marker, *)
(* "t" a base64-alphabet letter, "A" one more base64 character, "Q" four   *)
(* base64 characters, ";" ",", and "!" a character outside the base64      *)
(* alphabet.                                                                *)
(***************************************************************************)

MaxAtts == 2

TMP_DIR == "/tmp/llm_attachments"

UrlSet ==
  { <<"t">>,                                  \* not a data-URI
    <<>>,                                     \* url key missing
    <<"data:", "t">>,                          \* no comma
    <<"data:", "t", ";", ",", "Q">>,           \* text mime, 3 bytes
    <<"data:", "t", ",", "A">>,                \* incorrect padding
    <<"data:", ",">>,                          \* empty payload
    <<"data:", ",", "Q", ",", "!">> }          \* extra comma and junk discarded

\* "" stands for a missing or empty name; "d/x" names a file in a
\* sub-directory of TMP_DIR that does not exist
NameSet == {"x", "", "d/x"}

AttEntries == [name : NameSet, url : UrlSet]

AttLists == UNION {[1..k -> AttEntries] : k \in 0..MaxAtts}

Count(s, c) == Cardinality({i \in 1..Len(s) : s[i] = c})

HasComma(u) == \E i \in 1..Len(u) : u[i] = ","

FirstComma(u) == CHOOSE i \in 1..Len(u) : u[i] = "," /\ \A j \in 1..(i-1) : u[j] # ","

\* number of base64-alphabet characters ("data:" has four: d, a, t, a)
B64Chars(p) == 4 * Count(p, "data:") + Count(p, "t") + 4 * Count(p, "Q") + Count(p, "A")

\* base64.b64decode (non-validating: other characters are discarded)
B64Ok(p) == B64Chars(p) % 4 = 0

B64Size(p) == (B64Chars(p) \div 4) * 3

\* header.split(";")[0].replace("data:", "")
MimeOf(h) ==
  LET semi == {i \in 1..Len(h) : h[i] = ";"}
      first == IF semi = {} THEN h ELSE SubSeq(h, 1, (CHOOSE i \in semi : \A j \in semi : i <= j) - 1)
  IN SelectSeq(first, LAMBDA c : c # "data:")

StartsData(u) == Len(u) > 0 /\ u[1] = "data:"

\* open(TMP_DIR / name, "wb") succeeds
OpenOk(n) == n # "d/x"

AttName(a) == IF a.name = "" THEN "attachment" ELSE a.name

DecodeOne_Prepend(a, acc) ==
  LET n == AttName(a)
      u == a.url
  IN IF ~StartsData(u) THEN acc
     ELSE IF ~HasComma(u) THEN [acc EXCEPT !.fails = @ + 1]
     ELSE LET h == SubSeq(u, 1, FirstComma(u) - 1)
              p == SubSeq(u, FirstComma(u) + 1, Len(u))
          IN IF ~B64Ok(p) \/ ~OpenOk(n) THEN [acc EXCEPT !.fails = @ + 1]
             ELSE [acc EXCEPT !.saved = <<[name |-> n, path |-> <<TMP_DIR, n>>,
                                          mime |-> MimeOf(h), size |-> B64Size(p)]>> \o @,
                              !.written = @ \cup {<<TMP_DIR, n>>}]

\* one iteration of the loop of decode_attachments
DecodeOne(a, acc) ==
  LET n == AttName(a)
      u == a.url
  IN IF ~StartsData(u) THEN acc
     ELSE IF ~HasComma(u) THEN [acc EXCEPT !.fails = @ + 1]
     ELSE LET h == SubSeq(u, 1, FirstComma(u) - 1)
              p == SubSeq(u, FirstComma(u) + 1, Len(u))
          IN IF ~B64Ok(p) \/ ~OpenOk(n) THEN [acc EXCEPT !.fails = @ + 1]
             ELSE [acc EXCEPT !.saved = Append(@, [name |-> n, path |-> <<TMP_DIR, n>>,
                                                   mime |-> MimeOf(h), size |-> B64Size(p)]),
                              !.written = @ \cup {<<TMP_DIR, n>>}]

RECURSIVE DecodeLoop(_, _)
DecodeLoop(l, acc) == IF l = <<>> THEN acc ELSE DecodeLoop(Tail(l), DecodeOne(Head(l), acc))

decode_attachments(l) == DecodeLoop(l, [saved |-> <<>>, fails |-> 0, written |-> {}])

(***************************************************************************)
(* Repositories on the hosting side.                                       *)
(***************************************************************************)

MaxCalls == 3

USERNAME == "owner"

RepoNames == {"r1", "r2"}

\* no HTTP status: the httpx call raised
Exc == -1

NoHandle == [name |-> "none", full_name |-> <<>>]

\* status of GET /repos/{USERNAME}/{repo_name} (Exc: httpx raised)
GetStatuses(r, existing) == IF r \in existing THEN {200, 500, Exc} ELSE {404, 500, Exc}

\* status of POST /user/repos
PostStatuses(r, existing) == IF r \in existing THEN {422, Exc} ELSE {201, 422, Exc}

RepoFound_AnyAnswer(g) == g # 404

\* if r.status_code == 200: return the existing repository's handle
RepoFound(g) == g = 200

\* if r.status_code == 201: return r.json()
RepoCreated(ps) == ps = 201

(***************************************************************************)
(* File upserts: the remote path holds nothing, a file or a directory.     *)
(***************************************************************************)

MaxFileCalls == 2

RemoteStates == {"absent", "file", "dir"}

\* status of GET /repos/{full_name}/contents/{path}
FileGetStatuses(rem) == IF rem = "absent" THEN {404, 500, Exc} ELSE {200, 500, Exc}

\* status of the PUT
FilePutStatuses == {200, 201, 409, 422, Exc}

\* the PUT succeeded: 200 for an update, 201 for a creation
PutOk_EitherCode(isUpdate, st) == st \in {200, 201}

PutOk(isUpdate, st) == IF isUpdate THEN st = 200 ELSE st = 201

\* one upsert: GET, then (200 with a file object) update PUT carrying the sha,
\* (404) creation PUT without sha; failures raise ("raised") in
\* create_or_update_file and return False in create_or_update_binary_file.
\* A 200 answer for a directory is a list: file_data["sha"] raises.
FileUpsert(fn, g, body, p, rem) ==
  LET fail == IF fn = "text" THEN "raised" ELSE "False"
      succ == IF fn = "text" THEN "ok" ELSE "True"
  IN IF g = 200 /\ body = "file"
     THEN [puts |-> <<[sha |-> TRUE, st |-> p]>>,
           result |-> IF PutOk(TRUE, p) THEN succ ELSE fail,
           remote |-> rem]
     ELSE IF g = 404
     THEN [puts |-> <<[sha |-> FALSE, st |-> p]>>,
           result |-> IF PutOk(FALSE, p) THEN succ ELSE fail,
           remote |-> IF PutOk(FALSE, p) THEN "file" ELSE rem]
     ELSE [puts |-> <<>>, result |-> fail, remote |-> rem]

FileCall(fn) ==
  /\ mode = "file"
  /\ fileFn = fn
  /\ fCalls < MaxFileCalls
  /\ \E g \in FileGetStatuses(remote), p \in FilePutStatuses :
       LET body == IF g = 200 THEN remote ELSE "none"
           r == FileUpsert(fn, g, body, p, remote)
       IN /\ fGet' = g
          /\ fBody' = body
          /\ fPuts' = r.puts
          /\ fResult' = r.result
          \* a PUT whose response is lost may still have been applied
          /\ remote' \in (IF r.puts # <<>> /\ p = Exc THEN {r.remote, "file"}
                                                     ELSE {r.remote})
  /\ fCalls' = fCalls + 1
  /\ filePc' = "done"
  /\ UNCHANGED <<mode, fileFn, fenceVars, genVars, decVars, repoVars, pollVars>>

(***************************************************************************)
(* Pages status poll.  now is the time elapsed since start, in seconds.    *)
(***************************************************************************)

MaxPollTimeout == 7

\* time.sleep(3)
SleepSeconds == 3

\* httpx.get(pages_url, ..., timeout=15.0)
HttpTimeout == 15

\* how long one GET takes: immediate answer or the full client timeout
Latencies == {0, HttpTimeout}

\* GET /repos/{owner}/{name}/pages: html_url "" when missing, status "none"
\* when missing or null
PagesResponses ==
  [st : {200}, url : {"U", ""}, status : {"built", "building", "none"}]
  \cup [st : {404, 500, Exc}, url : {""}, status : {"none"}]

NoResp == [st |-> 0, url |-> "", status |-> "none"]

PagesReady_AnyStatus(r) == r.st = 200 /\ r.url # ""

\* if r.status_code == 200 and html_url and status in (None, "built")
PagesReady(r) == r.st = 200 /\ r.url # "" /\ r.status \in {"none", "built"}

\* one iteration of the while loop of wait_for_pages / wait_for_pages_for_repo
PollIter(fn) ==
  /\ mode = "poll"
  /\ pollFn = fn
  /\ pollPc = "loop"
  /\ IF now < pollTimeout
     THEN \E r \in PagesResponses, lat \in Latencies :
            /\ lastResp' = r
            /\ attempts' = attempts + 1
            /\ only404' = (only404 /\ r.st = 404)
            /\ IF PagesReady(r)
               THEN /\ pollResult' = r.url
                    /\ now' = now + lat
                    /\ pollPc' = "done"
               ELSE /\ now' = now + lat + SleepSeconds
                    /\ UNCHANGED <<pollResult, pollPc>>
     ELSE /\ pollPc' = "done"
          /\ UNCHANGED <<now, attempts, only404, lastResp, pollResult>>
  /\ UNCHANGED <<mode, pollFn, pollTimeout, fenceVars, genVars, decVars, repoVars, fileVars>>

(***************************************************************************)
(* Repository descriptions as sequences of runs [c, n]: n copies of c,     *)
(* where "c" is a control character (\x00-\x1f, \x7f-\x9f), " " a       *)
(* non-control whitespace character, "." a dot and "a" any other one.     *)
(***************************************************************************)

MaxRuns == 2

DescChars == {"a", "c", " ", "."}

RunLens == {1, 3, 347, 348, 351}

DescInputs == UNION {[1..k -> [c : DescChars, n : RunLens]] : k \in 0..MaxRuns}

\* if len(description) > 350
DescLimit == 350

\* description[:347] + "..."
DescKeep == 347

RECURSIVE RLen(_)
RLen(d) == IF d = <<>> THEN 0 ELSE Head(d).n + RLen(Tail(d))

\* re.sub(r'[\x00-\x1f\x7f-\x9f]', '', description)
DropControl(d) == SelectSeq(d, LAMBDA r : r.c # "c")

RECURSIVE LStripRuns(_)
LStripRuns(d) == IF d # <<>> /\ Head(d).c = " " THEN LStripRuns(Tail(d)) ELSE d

RECURSIVE RStripRuns(_)
RStripRuns(d) == IF d # <<>> /\ d[Len(d)].c = " " THEN RStripRuns(SubSeq(d, 1, Len(d) - 1)) ELSE d

\* description.strip()
StripRuns(d) == RStripRuns(LStripRuns(d))

\* d[:k]
RECURSIVE TakeRuns(_, _)
TakeRuns(d, k) ==
  IF d = <<>> \/ k = 0 THEN <<>>
  ELSE IF Head(d).n >= k THEN <<[c |-> Head(d).c, n |-> k]>>
  ELSE <<Head(d)>> \o TakeRuns(Tail(d), k - Head(d).n)

Ellipsis == <<[c |-> ".", n |-> 3]>>

sanitize_description_NoRoom(d) ==
  IF RLen(d) = 0 THEN d
  ELSE LET s == StripRuns(DropControl(d))
       IN IF RLen(s) > DescLimit THEN TakeRuns(s, DescLimit) \o Ellipsis ELSE s

\* the sanitising block at the top of create_repo
sanitize_description(d) ==
  IF RLen(d) = 0 THEN d
  ELSE LET s == StripRuns(DropControl(d))
       IN IF RLen(s) > DescLimit THEN TakeRuns(s, DescKeep) \o Ellipsis ELSE s

DefaultInp == [kind |-> "ok", content |-> <<>>, brief |-> <<"a">>, checks |-> <<>>,
               meta |-> <<>>, round |-> 1, cred |-> TRUE]

Init ==
  /\ mode \in {"fence", "gen", "dec", "repo", "file", "poll", "desc"}
  /\ fencePc = "idle"
  /\ IF mode = "fence" THEN seg \in Strings(MaxSegLen) ELSE seg = <<>>
  /\ segOut = <<>>
  /\ genPc = "idle"
  /\ IF mode = "gen" THEN inp \in GenInputs ELSE inp = DefaultInp
  /\ text = <<>>
  /\ codePart = <<>>
  /\ files = NoFiles
  /\ genRaised = FALSE
  /\ decPc = "idle"
  /\ CASE mode = "dec" -> atts \in AttLists
       [] mode = "gen" -> atts \in GenAtts
       [] OTHER        -> atts = <<>>
  /\ saved = <<>>
  /\ decFails = 0
  /\ written = {}
  /\ repoPc = "idle"
  /\ IF mode = "repo" THEN repos \in SUBSET RepoNames ELSE repos = {}
  /\ calls = 0
  /\ rName = "none"
  /\ lastGet = 0
  /\ lastPost = 0
  /\ posts = 0
  /\ handle = NoHandle
  /\ repoRaised = FALSE
  /\ IF mode = "desc" THEN desc \in DescInputs ELSE desc = <<>>
  /\ sentDesc = <<>>
  /\ filePc = "idle"
  /\ IF mode = "file" THEN fileFn \in {"text", "binary"} /\ remote \in RemoteStates
                      ELSE fileFn = "text" /\ remote = "absent"
  /\ fCalls = 0
  /\ fGet = 0
  /\ fBody = "none"
  /\ fPuts = <<>>
  /\ fResult = "none"
  /\ pollPc = IF mode = "poll" THEN "loop" ELSE "idle"
  /\ IF mode = "poll" THEN pollFn \in {"wait_for_pages", "wait_for_pages_for_repo"} /\ pollTimeout \in 0..MaxPollTimeout
                      ELSE pollFn = "wait_for_pages" /\ pollTimeout = 0
  /\ now = 0
  /\ attempts = 0
  /\ only404 = TRUE
  /\ lastResp = NoResp
  /\ pollResult = "None"

\* generate_app_code
generate_app_code ==
  /\ mode = "gen"
  /\ genPc = "idle"
  /\ LET d == decode_attachments(atts)
     IN /\ saved' = d.saved
        /\ decFails' = d.fails
        /\ written' = d.written
        /\ \E m \in SummaryOf(d.saved) :
             LET i == [inp EXCEPT !.meta = m]
                 t == CompletionText(i)
                 c == SplitCode(t)
             IN /\ inp' = i
                /\ IF ParseRaises(i)
                   THEN /\ text' = <<>>
                        /\ codePart' = <<>>
                        /\ files' = NoFiles
                        /\ genRaised' = TRUE
                   ELSE /\ text' = t
                        /\ codePart' = c
                        /\ files' = [index |-> RepairHtml(c), readme |-> SplitReadme(t, i)]
                        /\ genRaised' = FALSE
  /\ genPc' = "done"
  /\ UNCHANGED <<mode, decPc, atts, fenceVars, repoVars, pubVars>>

\* decode_attachments as called on its own
DecodeAttachments ==
  /\ mode = "dec"
  /\ decPc = "idle"
  /\ LET r == decode_attachments(atts)
     IN /\ saved' = r.saved
        /\ decFails' = r.fails
        /\ written' = r.written
  /\ decPc' = "done"
  /\ UNCHANGED <<mode, atts, fenceVars, genVars, repoVars, pubVars>>

\* create_repo(repo_name): existence GET, then creation POST unless found;
\* posts counts the POSTs issued by this call
create_repo ==
  /\ mode \in {"repo", "desc"}
  /\ calls < (IF mode = "desc" THEN 1 ELSE MaxCalls)
  /\ \E r \in RepoNames : \E g \in GetStatuses(r, repos) :
       /\ rName' = r
       /\ lastGet' = g
       /\ IF RepoFound(g)
          THEN /\ handle' = [name |-> r, full_name |-> <<USERNAME, r>>]
               /\ posts' = 0
               /\ lastPost' = 0
               /\ repoRaised' = FALSE
               /\ UNCHANGED <<repos, sentDesc>>
          ELSE \E ps \in PostStatuses(r, repos) :
                 /\ posts' = 1
                 /\ sentDesc' = sanitize_description(desc)
                 /\ lastPost' = ps
                 /\ IF RepoCreated(ps)
                    THEN /\ repos' = repos \cup {r}
                         /\ handle' = [name |-> r, full_name |-> <<USERNAME, r>>]
                         /\ repoRaised' = FALSE
                    ELSE /\ handle' = NoHandle
                         /\ repoRaised' = TRUE
                         \* a POST whose response is lost may still have
                         \* created the repository on the server
                         /\ repos' \in (IF ps = Exc THEN {repos, repos \cup {r}}
                                                   ELSE {repos})
  /\ calls' = calls + 1
  /\ UNCHANGED desc
  /\ repoPc' = "done"
  /\ UNCHANGED <<mode, fenceVars, genVars, decVars, pubVars>>

\* _strip_code_block applied to one segment
StripCodeBlock ==
  /\ mode = "fence"
  /\ fencePc = "idle"
  /\ segOut' = strip_code_block(seg)
  /\ fencePc' = "done"
  /\ UNCHANGED <<mode, seg, genVars, decVars, repoVars, pubVars>>

\* create_or_update_file(repo, path, content, message)
create_or_update_file == FileCall("text")

\* create_or_update_binary_file(repo, path, binary_content, commit_message)
create_or_update_binary_file == FileCall("binary")

\* wait_for_pages(repo_name, timeout_seconds)
wait_for_pages == PollIter("wait_for_pages")

\* wait_for_pages_for_repo(repo, timeout_seconds)
wait_for_pages_for_repo == PollIter("wait_for_pages_for_repo")

Next == StripCodeBlock \/ generate_app_code \/ DecodeAttachments \/ create_repo
        \/ create_or_update_file \/ create_or_update_binary_file
        \/ wait_for_pages \/ wait_for_pages_for_repo

Spec == Init /\ [][Next]_vars

\* the poll loop keeps iterating: the pipeline is single-threaded and blocking
FairSpec == Spec /\ WF_vars(wait_for_pages) /\ WF_vars(wait_for_pages_for_repo)

(***************************************************************************)
(* Properties                                                              *)
(***************************************************************************)

Contains(s, sub) == \E i \in 0..(Len(s) - Len(sub)) : SubSeq(s, i + 1, i + Len(sub)) = sub

\* first fence at or after position k (Len(x) + 1 if none)
NextFence(x, k) ==
  IF \E j \in k..Len(x) : FenceAt(x, j)
  THEN CHOOSE j \in k..Len(x) : FenceAt(x, j) /\ \A m \in k..(j-1) : ~FenceAt(x, m)
  ELSE Len(x) + 1

\* the text between the first delimiter and the next one (or the end)
FenceContent(x) == SubSeq(x, FirstFence(x) + 3, NextFence(x, FirstFence(x) + 3) - 1)

\* code-fence stripping as described: first fenced block, trimmed; else trimmed
FenceStripped(x) == IF HasFence(x) THEN strip(FenceContent(x)) ELSE strip(x)

\* C1: for every input and completion outcome generate_app_code never raises,
\* index.html and README.md are both non-empty and index.html begins with a
\* document-start token.
C1_Original ==
  genPc = "done" =>
    /\ ~genRaised
    /\ Len(files.index) > 0 /\ StartsDoc(files.index)
    /\ Len(files.readme) > 0

\* C2: with no completion credential generate_app_code raises the
\* missing-credential error to its caller instead of using fallback content.
C2_FailFast == genPc = "done" /\ ~inp.cred => genRaised

Clean(x) == ~HasFence(x) /\ ~HasSep(x)

CleanInputs(i) == Clean(i.brief) /\ Clean(i.meta) /\ \A k \in 1..Len(i.checks) : Clean(i.checks[k])

\* C3: on a non-200 status, a response without
\* choices[0].message.content or a transport exception, round 1 yields the
\* fallback: index.html holds the fallback marker and the brief, README.md
\* holds the round-1 header and the brief and equals the template rendering.
C3_Original ==
  (genPc = "done" /\ inp.cred /\ inp.kind \in {"non200", "malformed", "exc"} /\ inp.round = 1) =>
    /\ ~genRaised
    /\ Contains(files.index, <<"FBHEAD">>) /\ Contains(files.index, inp.brief)
    /\ Contains(files.readme, <<"RH1">>) /\ Contains(files.readme, inp.brief)
    /\ files.readme = generate_readme_fallback(inp.brief, inp.checks, inp.meta, inp.round)

\* C4: when the response holds the separator exactly once, code_part (before
\* wrapping) and README.md are the text before and after it, each
\* code-fence-stripped and trimmed.
C4_SplitOnce ==
  (genPc = "done" /\ ~genRaised /\ Count(text, "S") = 1) =>
    /\ codePart = FenceStripped(SplitSep(text)[1])
    /\ files.readme = FenceStripped(SplitSep(text)[2])

C4_Witness ==
  genPc = "done" /\ inp.kind = "ok" /\ Count(text, "S") = 1 /\ HasFence(text)
  /\ Len(codePart) + Len(files.readme) > 0

\* C5 (original): without a separator, README.md is the template rendering
\* and index.html is the trimmed raw text, wrapped if it lacks '<'.
C5_Original ==
  (genPc = "done" /\ ~genRaised /\ ~HasSep(text)) =>
    /\ files.readme = generate_readme_fallback(inp.brief, inp.checks, inp.meta, inp.round)
    /\ files.index = IF StartsDoc(strip(text)) THEN strip(text) ELSE WrapHtml(strip(text))

\* C5 (amended): without a separator, README.md is the template rendering
\* and index.html is the code-fence-stripped trimmed text, wrapped if it
\* lacks '<'.
C5_NoSeparator ==
  (genPc = "done" /\ ~genRaised /\ ~HasSep(text)) =>
    /\ files.readme = generate_readme_fallback(inp.brief, inp.checks, inp.meta, inp.round)
    /\ files.index = IF StartsDoc(FenceStripped(text)) THEN FenceStripped(text)
                      ELSE WrapHtml(FenceStripped(text))

C5_Witness == genPc = "done" /\ inp.kind = "ok" /\ ~HasSep(text) /\ HasFence(text) /\ Len(codePart) > 0

\* the segment holds a second delimiter after the first one
HasSecondFence(x) == HasFence(x) /\ NextFence(x, FirstFence(x) + 3) <= Len(x)

\* C6 (original): a segment with a first fenced block yields the text between
\* the first and the second delimiter; a segment without a delimiter yields
\* the trimmed segment.
C6_Original ==
  fencePc = "done" =>
    /\ (HasSecondFence(seg) => segOut = FenceContent(seg))
    /\ (~HasFence(seg) => segOut = strip(seg))

\* C6 (amended): as above, with the fenced content trimmed as well.
C6_FenceStrip == fencePc = "done" => segOut = FenceStripped(seg)

C6_Witness == fencePc = "done" /\ HasSecondFence(seg) /\ Len(segOut) > 0

\* C7: a code_part not starting with '<' is returned inside a skeleton that
\* begins with "<!DOCTYPE html>" and contains it; otherwise it is unchanged.
C7_Wrap ==
  genPc = "done" /\ ~genRaised =>
    IF StartsDoc(codePart)
    THEN files.index = codePart
    ELSE /\ Len(files.index) >= 2 /\ SubSeq(files.index, 1, 2) = <<"<", "DOCHEAD">>
         /\ Contains(files.index, codePart)

C7_Witness == genPc = "done" /\ ~StartsDoc(codePart) /\ Len(codePart) > 0

\* C8 (original): re-running the splitter on code_part or on README.md, when
\* it holds no separator, gives it back unchanged.
C8_Original ==
  genPc = "done" /\ ~genRaised =>
    /\ (~HasSep(codePart) => SplitCode(codePart) = codePart)
    /\ (~HasSep(files.readme) => SplitCode(files.readme) = files.readme)

\* C8 (amended): the same holds for code_part always, and for README.md when
\* it was cut from the response at the separator.
C8_Resplit ==
  genPc = "done" /\ ~genRaised =>
    /\ (~HasSep(codePart) => SplitCode(codePart) = codePart)
    /\ (HasSep(text) /\ ~HasSep(files.readme) => SplitCode(files.readme) = files.readme)

C8_Witness == genPc = "done" /\ HasSep(text) /\ HasFence(text) /\ Len(codePart) > 0 /\ Len(files.readme) > 0

RECURSIVE DataEntries(_)
DataEntries(l) ==
  IF l = <<>> THEN <<>>
  ELSE (IF StartsData(Head(l).url) THEN <<Head(l)>> ELSE <<>>) \o DataEntries(Tail(l))

Payload(u) == SubSeq(u, FirstComma(u) + 1, Len(u))

WellFormed(a) == HasComma(a.url) /\ B64Ok(Payload(a.url))

Record(a) ==
  [name |-> AttName(a), path |-> <<TMP_DIR, AttName(a)>>,
   mime |-> MimeOf(SubSeq(a.url, 1, FirstComma(a.url) - 1)), size |-> B64Size(Payload(a.url))]

RECURSIVE Records(_, _)
Records(l, writable) ==
  IF l = <<>> THEN <<>>
  ELSE (IF WellFormed(Head(l)) /\ (writable => OpenOk(AttName(Head(l))))
        THEN <<Record(Head(l))>> ELSE <<>>) \o Records(Tail(l), writable)

\* C9 (original): one record per data-URI entry that is well formed and
\* decodes, in input order; every other data-URI entry is logged.
C9_Original ==
  decPc = "done" =>
    /\ saved = Records(DataEntries(atts), FALSE)
    /\ decFails = Len(DataEntries(atts)) - Len(Records(DataEntries(atts), FALSE))

\* C9 (amended): as above, an entry whose file cannot be written under its
\* name being logged and skipped as well.
C9_Decode ==
  decPc = "done" =>
    /\ saved = Records(DataEntries(atts), TRUE)
    /\ decFails = Len(DataEntries(atts)) - Len(Records(DataEntries(atts), TRUE))

C9_Witness == decPc = "done" /\ Len(saved) >= 1 /\ decFails >= 1

\* C10: when the existence GET finds the repository no POST is issued and
\* the handle names it; otherwise exactly one POST is issued and any status
\* other than 201 raises.
C10_Repo ==
  repoPc = "done" =>
    /\ (lastGet = 200 =>
          /\ posts = 0 /\ rName \in repos /\ ~repoRaised
          /\ handle = [name |-> rName, full_name |-> <<USERNAME, rName>>])
    /\ (lastGet # 200 => posts = 1 /\ (lastPost # 201 <=> repoRaised))

C10_Witness == repoPc = "done" /\ lastGet = 200 /\ calls >= 2

ExpectedPut(sha) == IF sha THEN 200 ELSE 201

PutSent(sha) == Len(fPuts) = 1 /\ fPuts[1].sha = sha

\* C11 (original): an update PUT with the sha is sent iff the GET returned 200,
\* a creation PUT without sha iff it returned 404; the text variant raises on
\* any other GET status or an unexpected PUT status, the binary variant
\* returns True on success and False on every failure.
C11_Original ==
  filePc = "done" =>
    /\ (PutSent(TRUE) <=> fGet = 200)
    /\ (PutSent(FALSE) <=> fGet = 404)
    /\ LET success == Len(fPuts) = 1 /\ fPuts[1].st = ExpectedPut(fPuts[1].sha)
       IN IF fileFn = "text" THEN (fResult = "raised" <=> ~success) /\ fResult \in {"ok", "raised"}
          ELSE fResult \in {"True", "False"} /\ (fResult = "True" <=> success)

\* C11 (amended): as above, with the update PUT sent iff the GET returned 200
\* for a file; a 200 for a directory (no sha) sends no PUT and raises
\* (text) or returns False (binary).
C11_Upsert ==
  filePc = "done" =>
    /\ (PutSent(TRUE) <=> fGet = 200 /\ fBody = "file")
    /\ (PutSent(FALSE) <=> fGet = 404)
    /\ LET success == Len(fPuts) = 1 /\ fPuts[1].st = ExpectedPut(fPuts[1].sha)
       IN IF fileFn = "text" THEN (fResult = "raised" <=> ~success) /\ fResult \in {"ok", "raised"}
          ELSE fResult \in {"True", "False"} /\ (fResult = "True" <=> success)

C11_Witness == filePc = "done" /\ fileFn = "binary" /\ fCalls = 2 /\ PutSent(TRUE) /\ fResult = "True"

\* the answer a URL may be returned for, as described
ReadyAnswer(r) == r.st = 200 /\ r.url # "" /\ r.status \in {"none", "built"}

PollSafe ==
  pollPc = "done" =>
    /\ (pollResult # "None" => ReadyAnswer(lastResp) /\ pollResult = lastResp.url)
    /\ (pollResult = "None" => now >= pollTimeout)

PollSleeps == [][pollPc = "loop" /\ pollPc' = "loop" => now' >= now + SleepSeconds]_vars

\* C12 (original): the poll terminates; it returns a URL only for a 200 with a
\* populated html_url and status built or absent, terminates on persistent
\* 404 (before the deadline), otherwise returns None once the timeout
\* elapses, sleeping 3 seconds between attempts.
C12_Original ==
  /\ []PollSafe
  /\ [](pollPc = "done" /\ attempts > 0 /\ only404 => now < pollTimeout)
  /\ PollSleeps
  /\ (mode = "poll" => <>(pollPc = "done"))

\* C12 (amended): the poll terminates; it returns a URL only for a 200 with a
\* populated html_url and status built or absent; 404, other statuses and
\* exceptions are "not ready" and polling goes on, 3 seconds apart, until
\* the timeout elapses and None is returned.
C12_Poll ==
  /\ []PollSafe
  /\ PollSleeps
  /\ (mode = "poll" => <>(pollPc = "done"))

C12_Witness == pollPc = "done" /\ pollResult = "U" /\ attempts >= 2

RECURSIVE TrailingDots(_)
TrailingDots(d) ==
  IF d = <<>> THEN 0
  ELSE IF d[Len(d)].c = "." THEN d[Len(d)].n + TrailingDots(SubSeq(d, 1, Len(d) - 1))
  ELSE 0

HasControl(d) == \E i \in 1..Len(d) : d[i].c = "c"

StrippedInput == StripRuns(DropControl(desc))

\* C13 (original): the description sent has no control characters, is at
\* most 350 characters, and ends in "..." exactly when the stripped input
\* exceeded 350 characters.
C13_Original ==
  (repoPc = "done" /\ mode = "desc" /\ posts = 1) =>
    /\ ~HasControl(sentDesc)
    /\ RLen(sentDesc) <= 350
    /\ (TrailingDots(sentDesc) >= 3 <=> RLen(StrippedInput) > 350)

\* C13 (amended): the description sent has no control characters and is at
\* most 350 characters; if the stripped input exceeded 350 characters it is
\* its first 347 characters followed by "...", otherwise the stripped input.
C13_Description ==
  (repoPc = "done" /\ mode = "desc" /\ posts = 1) =>
    /\ ~HasControl(sentDesc)
    /\ RLen(sentDesc) <= 350
    /\ (RLen(StrippedInput) > 350 =>
          /\ RLen(sentDesc) = 350 /\ TrailingDots(sentDesc) >= 3
          /\ TakeRuns(sentDesc, 347) = TakeRuns(StrippedInput, 347))
    /\ (RLen(StrippedInput) <= 350 => sentDesc = StrippedInput)

C13_Witness ==
  repoPc = "done" /\ mode = "desc" /\ posts = 1 /\ HasControl(desc) /\ RLen(StrippedInput) > 350

====
